---- MODULE Spec2Model ----
(***************************************************************************)
(* Model of service_b/web_app/views.py: the Django view home_view, which   *)
(* fetches JSON from Service A with requests.get and renders home.html.    *)
(* Several invocations of the view run concurrently (one per worker of the *)
(* hosting server); each has its own locals, and they share the process    *)
(* environment.                                                            *)
(***************************************************************************)
EXTENDS Integers, Sequences, FiniteSets, TLC

\* ------------------------------------------------------------------ bounds
\* Number of concurrent invocations of home_view the model interleaves.
NumWorkers == 2

Workers == 1..NumWorkers

\* ------------------------------------------------------- program constants
\* requests.get(..., timeout=5)
TIMEOUT == 5

\* os.environ.get('SERVICE_A_HOST', 'service-a')
ENV_KEY == "SERVICE_A_HOST"
DEFAULT_HOST == "service-a"

\* render(request, 'home.html', ...)
TEMPLATE == "home.html"

\* ------------------------------------------------------------ JSON values
\* A decoded JSON value (a Python object) is a node [type, str, kids]:
\*   string  [type |-> "str",  str |-> s,   kids |-> <<>>]
\*   list    [type |-> "list", str |-> "",  kids |-> <<v1, ..., vn>>]
\*   dict    [type |-> "dict", str |-> "",  kids |-> <<item1, ..., itemn>>]
\*   item    [type |-> "item", str |-> key, kids |-> <<value>>]
\*   None    [type |-> "None", str |-> "",  kids |-> <<>>]
PyStr(s) == [type |-> "str", str |-> s, kids |-> <<>>]
PyList(vs) == [type |-> "list", str |-> "", kids |-> vs]
PyDict(items) == [type |-> "dict", str |-> "", kids |-> items]
PyItem(k, v) == [type |-> "item", str |-> k, kids |-> <<v>>]
PyNone == [type |-> "None", str |-> "", kids |-> <<>>]

\* A local name that has not been assigned yet.
Unbound == [type |-> "unbound", str |-> "", kids |-> <<>>]

\* d[k] = v on the item list of a dict: a repeated key keeps its position
\* and takes the new value.
DictPut(items, k, v) ==
    IF \E i \in 1..Len(items) : items[i].str = k
    THEN [i \in 1..Len(items) |->
            IF items[i].str = k THEN PyItem(k, v) ELSE items[i]]
    ELSE Append(items, PyItem(k, v))

\* The literal {'items': []} of the except clause.
FallbackPayload == PyDict(<<PyItem("items", PyList(<<>>))>>)

\* ------------------------------------------------------------ JSON bodies
\* A response body is a sequence of lexical tokens [k, s]:
\*   k = "p": punctuation s in { "{", "}", "[", "]", ":", "," }
\*   k = "s": the string literal "s"
\*   k = "w": a bare word (null, or text that is no JSON at all)
P(s) == [k |-> "p", s |-> s]
S(s) == [k |-> "s", s |-> s]
W(s) == [k |-> "w", s |-> s]

ParseFail == [ok |-> FALSE, val |-> Unbound, next |-> 0]

RECURSIVE ParseValue(_, _)
RECURSIVE ParseElements(_, _, _)
RECURSIVE ParseMembers(_, _, _)

\* One JSON value starting at token i: [ok, val, next].
ParseValue(toks, i) ==
    IF i > Len(toks) THEN ParseFail
    ELSE LET t == toks[i] IN
         IF t.k = "s" THEN [ok |-> TRUE, val |-> PyStr(t.s), next |-> i + 1]
         ELSE IF t = W("null") THEN [ok |-> TRUE, val |-> PyNone, next |-> i + 1]
         ELSE IF t = P("[") THEN
              IF i + 1 <= Len(toks) /\ toks[i + 1] = P("]")
              THEN [ok |-> TRUE, val |-> PyList(<<>>), next |-> i + 2]
              ELSE ParseElements(toks, i + 1, <<>>)
         ELSE IF t = P("{") THEN
              IF i + 1 <= Len(toks) /\ toks[i + 1] = P("}")
              THEN [ok |-> TRUE, val |-> PyDict(<<>>), next |-> i + 2]
              ELSE ParseMembers(toks, i + 1, <<>>)
         ELSE ParseFail

\* Mutant of ParseElements: the decoded list comes out in reverse order.
RECURSIVE ParseElements_Reversed(_, _, _)
ParseElements_Reversed(toks, i, acc) ==
    LET r == ParseValue(toks, i) IN
    IF ~r.ok \/ r.next > Len(toks) THEN ParseFail
    ELSE IF toks[r.next] = P(",")
         THEN ParseElements_Reversed(toks, r.next + 1, <<r.val>> \o acc)
    ELSE IF toks[r.next] = P("]")
         THEN [ok |-> TRUE, val |-> PyList(<<r.val>> \o acc), next |-> r.next + 1]
    ELSE ParseFail

\* The elements of a non-empty array, the first starting at token i.
ParseElements(toks, i, acc) ==
    LET r == ParseValue(toks, i) IN
    IF ~r.ok \/ r.next > Len(toks) THEN ParseFail
    ELSE IF toks[r.next] = P(",")
         THEN ParseElements(toks, r.next + 1, Append(acc, r.val))
    ELSE IF toks[r.next] = P("]")
         THEN [ok |-> TRUE, val |-> PyList(Append(acc, r.val)), next |-> r.next + 1]
    ELSE ParseFail

\* The members of a non-empty object, the first starting at token i.
ParseMembers(toks, i, acc) ==
    IF i + 1 > Len(toks) \/ toks[i].k # "s" \/ toks[i + 1] # P(":")
    THEN ParseFail
    ELSE LET r == ParseValue(toks, i + 2) IN
         IF ~r.ok \/ r.next > Len(toks) THEN ParseFail
         ELSE IF toks[r.next] = P(",")
              THEN ParseMembers(toks, r.next + 1, DictPut(acc, toks[i].s, r.val))
         ELSE IF toks[r.next] = P("}")
              THEN [ok |-> TRUE, val |-> PyDict(DictPut(acc, toks[i].s, r.val)),
                    next |-> r.next + 1]
         ELSE ParseFail

\* response.json(): the whole body must be one JSON value.
ParseJson(body) ==
    LET r == ParseValue(body, 1) IN
    IF r.ok /\ r.next = Len(body) + 1 THEN r ELSE ParseFail

\* -------------------------------------------------------------- upstream
\* What Service A does with one GET: it is unreachable (connection refused,
\* DNS failure), or it answers after `delay` seconds with a status and a body.
BodyItemsAB ==
    <<P("{"), S("items"), P(":"), P("["), S("a"), P(","), S("b"), P("]"), P("}")>>
BodyItemsNone == <<P("{"), S("items"), P(":"), P("["), P("]"), P("}")>>
BodyDetail == <<P("{"), S("detail"), P(":"), S("a"), P("}")>>
BodyTruncated == <<P("{"), S("items"), P(":"), P("[")>>
BodyHtml == <<W("<html>")>>

Answer(delay, status, body) ==
    [reachable |-> TRUE, delay |-> delay, status |-> status, body |-> body]

Unreachable == [reachable |-> FALSE, delay |-> 0, status |-> 0, body |-> <<>>]

Upstreams ==
    { Unreachable,
      Answer(6, 200, BodyItemsAB),
      Answer(1, 200, BodyItemsAB),
      Answer(1, 200, BodyItemsNone),
      Answer(1, 200, BodyTruncated),
      Answer(1, 300, BodyItemsAB),
      Answer(1, 404, BodyDetail),
      Answer(1, 500, BodyHtml) }

NotServed == [reachable |-> FALSE, delay |-> 0, status |-> -1, body |-> <<>>]

\* The environment of the process: a mapping from names to strings.
EnvUnset == [k \in {} |-> ""]
EnvWith(h) == [k \in {ENV_KEY} |-> h]
Envs == {EnvUnset, EnvWith("alt-host")}

\* ------------------------------------------------------------------ state
VARIABLES
    env,        \* os.environ
    jsonErrIsRequestException,
                \* the installed requests raises requests.exceptions.JSONDecodeError
                \* (a RequestException, requests >= 2.27) from response.json(),
                \* or a plain json ValueError (older releases)
    pc,         \* pc[w]: the statement invocation w executes next
    envSeen,    \* the environment as it was when this invocation read it
    url,        \* service_a_url
    served,     \* what the upstream did with the GET of this invocation
    response,   \* response: [status, body], or NoResponse
    exc,        \* the exception in flight, "" when none
    data,       \* data
    logs,       \* records logger emitted during this invocation
    calls,      \* outbound requests issued during this invocation
    rendered,   \* arguments of render(), NotRendered before the call
    trace,      \* the steps this invocation has taken, in order
    prev        \* summary of the previous completed invocation (sequential runs)

vars == <<env, jsonErrIsRequestException, pc, envSeen, url, served, response, exc,
          data, logs, calls, rendered, trace, prev>>

NoResponse == [status |-> 0, body |-> <<>>]
NotRendered == [template |-> "", context |-> [k \in {} |-> Unbound]]
NoPrev == [env |-> EnvUnset, served |-> NotServed, pc |-> "", data |-> Unbound,
           nlogs |-> 0]

Init ==
    /\ env \in Envs
    /\ jsonErrIsRequestException \in BOOLEAN
    /\ pc = [w \in Workers |-> "idle"]
    /\ envSeen = [w \in Workers |-> EnvUnset]
    /\ url = [w \in Workers |-> ""]
    /\ served = [w \in Workers |-> NotServed]
    /\ response = [w \in Workers |-> NoResponse]
    /\ exc = [w \in Workers |-> ""]
    /\ data = [w \in Workers |-> Unbound]
    /\ logs = [w \in Workers |-> <<>>]
    /\ calls = [w \in Workers |-> <<>>]
    /\ rendered = [w \in Workers |-> NotRendered]
    /\ trace = [w \in Workers |-> <<>>]
    /\ prev = NoPrev

\* ---------------------------------------------------------------- helpers
\* Mutant of EnvGet: the host is read once under the default and never from
\* the environment.
EnvGet_Ignored(e, key, default) == default

\* os.environ.get(key, default)
EnvGet(e, key, default) == IF key \in DOMAIN e THEN e[key] ELSE default

\* f'http://{service_a_host}:8000/api/data/'
ServiceAUrl(host) == "http://" \o host \o ":8000/api/data/"

\* Mutant of RaisesForStatus: only a 5xx status raises.
RaisesForStatus_ServerOnly(status) == 500 <= status /\ status < 600

\* Mutant of RaisesForStatus: the status is not validated at all.
RaisesForStatus_Never(status) == FALSE

\* Response.raise_for_status() raises HTTPError for a 4xx or 5xx status.
RaisesForStatus(status) == 400 <= status /\ status < 600

\* except requests.exceptions.RequestException
IsRequestException(e) ==
    \/ e \in {"ConnectionError", "Timeout", "HTTPError"}
    \/ e = "JSONDecodeError" /\ jsonErrIsRequestException

\* logger.error(f"Error connecting to Service A: {e}")
ErrorRecord(e) == [level |-> "ERROR", msg |-> "Error connecting to Service A: " \o e]

\* ---------------------------------------------------------------- actions
\* def home_view(request): a new invocation reads the environment and
\* resolves the upstream URL.
Start(w) ==
    /\ pc[w] = "idle"
    /\ envSeen' = [envSeen EXCEPT ![w] = env]
    /\ url' = [url EXCEPT ![w] = ServiceAUrl(EnvGet(env, ENV_KEY, DEFAULT_HOST))]
    /\ trace' = [trace EXCEPT ![w] = <<"resolve">>]
    /\ pc' = [pc EXCEPT ![w] = "get"]
    /\ UNCHANGED <<env, jsonErrIsRequestException, served, response, exc, data,
                   logs, calls, rendered, prev>>

\* response = requests.get(service_a_url, timeout=5)
Get(w) ==
    /\ pc[w] = "get"
    /\ \E u \in Upstreams :
        /\ served' = [served EXCEPT ![w] = u]
        /\ calls' = [calls EXCEPT ![w] =
                        Append(@, [method |-> "GET", url |-> url[w], timeout |-> TIMEOUT])]
        /\ IF ~u.reachable
           THEN /\ exc' = [exc EXCEPT ![w] = "ConnectionError"]
                /\ pc' = [pc EXCEPT ![w] = "except"]
                /\ UNCHANGED response
           ELSE IF u.delay > TIMEOUT
           THEN /\ exc' = [exc EXCEPT ![w] = "Timeout"]
                /\ pc' = [pc EXCEPT ![w] = "except"]
                /\ UNCHANGED response
           ELSE /\ response' = [response EXCEPT ![w] =
                                   [status |-> u.status, body |-> u.body]]
                /\ pc' = [pc EXCEPT ![w] = "raise_for_status"]
                /\ UNCHANGED exc
    /\ trace' = [trace EXCEPT ![w] = Append(@, "get")]
    /\ UNCHANGED <<env, jsonErrIsRequestException, envSeen, url, data, logs, rendered, prev>>

\* response.raise_for_status()
RaiseForStatus(w) ==
    /\ pc[w] = "raise_for_status"
    /\ IF RaisesForStatus(response[w].status)
       THEN /\ exc' = [exc EXCEPT ![w] = "HTTPError"]
            /\ pc' = [pc EXCEPT ![w] = "except"]
       ELSE /\ pc' = [pc EXCEPT ![w] = "json"]
            /\ UNCHANGED exc
    /\ trace' = [trace EXCEPT ![w] = Append(@, "raise_for_status")]
    /\ UNCHANGED <<env, jsonErrIsRequestException, envSeen, url, served, response, data,
                   logs, calls, rendered, prev>>

\* data = response.json()
Json(w) ==
    /\ pc[w] = "json"
    /\ LET r == ParseJson(response[w].body) IN
       IF r.ok
       THEN /\ data' = [data EXCEPT ![w] = r.val]
            /\ pc' = [pc EXCEPT ![w] = "render"]
            /\ UNCHANGED exc
       ELSE /\ exc' = [exc EXCEPT ![w] = "JSONDecodeError"]
            /\ pc' = [pc EXCEPT ![w] = "except"]
            /\ UNCHANGED data
    /\ trace' = [trace EXCEPT ![w] = Append(@, "json")]
    /\ UNCHANGED <<env, jsonErrIsRequestException, envSeen, url, served, response, logs,
                   calls, rendered, prev>>

\* Mutant of Except: a failed attempt is retried once before falling back.
Except_Retry(w) ==
    /\ pc[w] = "except"
    /\ IF IsRequestException(exc[w]) /\ Len(calls[w]) < 2
       THEN /\ exc' = [exc EXCEPT ![w] = ""]
            /\ pc' = [pc EXCEPT ![w] = "get"]
            /\ trace' = [trace EXCEPT ![w] = <<"resolve">>]
            /\ UNCHANGED <<logs, data>>
       ELSE IF IsRequestException(exc[w])
       THEN /\ logs' = [logs EXCEPT ![w] = Append(@, ErrorRecord(exc[w]))]
            /\ data' = [data EXCEPT ![w] = FallbackPayload]
            /\ exc' = [exc EXCEPT ![w] = ""]
            /\ trace' = [trace EXCEPT ![w] = Append(@, "except")]
            /\ pc' = [pc EXCEPT ![w] = "render"]
       ELSE /\ pc' = [pc EXCEPT ![w] = "raised"]
            /\ UNCHANGED <<logs, data, exc, trace>>
    /\ UNCHANGED <<env, jsonErrIsRequestException, envSeen, url, served, response,
                   calls, rendered, prev>>

\* Mutant of Except: the fallback is substituted without a log record.
Except_Silent(w) ==
    /\ pc[w] = "except"
    /\ IF IsRequestException(exc[w])
       THEN /\ data' = [data EXCEPT ![w] = FallbackPayload]
            /\ exc' = [exc EXCEPT ![w] = ""]
            /\ trace' = [trace EXCEPT ![w] = Append(@, "except")]
            /\ pc' = [pc EXCEPT ![w] = "render"]
            /\ UNCHANGED logs
       ELSE /\ pc' = [pc EXCEPT ![w] = "raised"]
            /\ UNCHANGED <<logs, data, exc, trace>>
    /\ UNCHANGED <<env, jsonErrIsRequestException, envSeen, url, served, response,
                   calls, rendered, prev>>

\* Mutant of Except: `data` is a module-level name shared by all invocations.
Except_SharedData(w) ==
    /\ pc[w] = "except"
    /\ IF IsRequestException(exc[w])
       THEN /\ logs' = [logs EXCEPT ![w] = Append(@, ErrorRecord(exc[w]))]
            /\ data' = [v \in Workers |-> FallbackPayload]
            /\ exc' = [exc EXCEPT ![w] = ""]
            /\ trace' = [trace EXCEPT ![w] = Append(@, "except")]
            /\ pc' = [pc EXCEPT ![w] = "render"]
       ELSE /\ pc' = [pc EXCEPT ![w] = "raised"]
            /\ UNCHANGED <<logs, data, exc, trace>>
    /\ UNCHANGED <<env, jsonErrIsRequestException, envSeen, url, served, response,
                   calls, rendered, prev>>

\* except requests.exceptions.RequestException as e: log and fall back; an
\* exception of any other class leaves home_view.
Except(w) ==
    /\ pc[w] = "except"
    /\ IF IsRequestException(exc[w])
       THEN /\ logs' = [logs EXCEPT ![w] = Append(@, ErrorRecord(exc[w]))]
            /\ data' = [data EXCEPT ![w] = FallbackPayload]
            /\ exc' = [exc EXCEPT ![w] = ""]
            /\ trace' = [trace EXCEPT ![w] = Append(@, "except")]
            /\ pc' = [pc EXCEPT ![w] = "render"]
       ELSE /\ pc' = [pc EXCEPT ![w] = "raised"]
            /\ UNCHANGED <<logs, data, exc, trace>>
    /\ UNCHANGED <<env, jsonErrIsRequestException, envSeen, url, served, response, calls,
                   rendered, prev>>

\* return render(request, 'home.html', {'data': data})
Render(w) ==
    /\ pc[w] = "render"
    /\ rendered' = [rendered EXCEPT ![w] =
                       [template |-> TEMPLATE, context |-> [k \in {"data"} |-> data[w]]]]
    /\ trace' = [trace EXCEPT ![w] = Append(@, "render")]
    /\ pc' = [pc EXCEPT ![w] = "done"]
    /\ UNCHANGED <<env, jsonErrIsRequestException, envSeen, url, served, response,
                   exc, data, logs, calls, prev>>

\* Mutant of Discard: what an invocation leaves behind stays where the next
\* invocation finds it.
Discard_Kept(f, w, fresh) == f

\* The frame of a finished invocation is discarded: its locals, and what the
\* invocation is known to have done, are gone.
Discard(f, w, fresh) == [f EXCEPT ![w] = fresh]

\* The caller (the request dispatch of the framework) takes the response, or
\* the exception, and the worker is free for the next request.
Return(w) ==
    /\ pc[w] \in {"done", "raised"}
    /\ pc' = [pc EXCEPT ![w] = "idle"]
    /\ envSeen' = Discard(envSeen, w, EnvUnset)
    /\ url' = Discard(url, w, "")
    /\ served' = Discard(served, w, NotServed)
    /\ response' = Discard(response, w, NoResponse)
    /\ exc' = Discard(exc, w, "")
    /\ data' = Discard(data, w, Unbound)
    /\ logs' = Discard(logs, w, <<>>)
    /\ calls' = Discard(calls, w, <<>>)
    /\ rendered' = Discard(rendered, w, NotRendered)
    /\ trace' = Discard(trace, w, <<>>)
    /\ UNCHANGED <<env, jsonErrIsRequestException, prev>>

\* What one invocation saw and produced.
Summary(w) ==
    [env |-> envSeen[w], served |-> served[w], pc |-> pc[w], data |-> data[w],
     nlogs |-> Len(logs[w])]

\* The same return, in a run where one worker serves the requests one after
\* the other: the summary of the invocation is kept for comparison with the
\* next one.
ReturnInSuccession ==
    /\ pc[1] \in {"done", "raised"}
    /\ prev' = Summary(1)
    /\ pc' = [pc EXCEPT ![1] = "idle"]
    /\ envSeen' = Discard(envSeen, 1, EnvUnset)
    /\ url' = Discard(url, 1, "")
    /\ served' = Discard(served, 1, NotServed)
    /\ response' = Discard(response, 1, NoResponse)
    /\ exc' = Discard(exc, 1, "")
    /\ data' = Discard(data, 1, Unbound)
    /\ logs' = Discard(logs, 1, <<>>)
    /\ calls' = Discard(calls, 1, <<>>)
    /\ rendered' = Discard(rendered, 1, NotRendered)
    /\ trace' = Discard(trace, 1, <<>>)
    /\ UNCHANGED <<env, jsonErrIsRequestException>>

\* The environment of the process changes (os.environ is process-wide).
SetEnv ==
    /\ \E e \in Envs : e # env /\ env' = e
    /\ UNCHANGED <<jsonErrIsRequestException, pc, envSeen, url, served, response,
                   exc, data, logs, calls, rendered, trace, prev>>

Next ==
    \/ \E w \in Workers : Start(w)
    \/ \E w \in Workers : Get(w)
    \/ \E w \in Workers : RaiseForStatus(w)
    \/ \E w \in Workers : Json(w)
    \/ \E w \in Workers : Except(w)
    \/ \E w \in Workers : Render(w)
    \/ \E w \in Workers : Return(w)
    \/ SetEnv

\* Concurrent invocations, interleaved statement by statement.
Spec == Init /\ [][Next]_vars

NextSeq ==
    \/ Start(1)
    \/ Get(1)
    \/ RaiseForStatus(1)
    \/ Json(1)
    \/ Except(1)
    \/ Render(1)
    \/ ReturnInSuccession
    \/ SetEnv

\* One worker serving requests in succession.
SpecSeq == Init /\ [][NextSeq]_vars

\* ================================================================ claims
\* What the claims speak of, stated from the inputs of an invocation.
Finished(w) == pc[w] \in {"done", "raised"}
ConnectionFailed(w) == served[w] # NotServed /\ ~served[w].reachable
TimedOut(w) == served[w].reachable /\ served[w].delay > 5
Answered(w) == served[w].reachable /\ served[w].delay <= 5
Is2xx(status) == status \in 200..299
Is4xx5xx(status) == status \in 400..599

\* The Python value each well-formed body of the model stands for.
ItemsAB == PyDict(<<PyItem("items", PyList(<<PyStr("a"), PyStr("b")>>))>>)
ItemsNone == PyDict(<<PyItem("items", PyList(<<>>))>>)
Detail == PyDict(<<PyItem("detail", PyStr("a"))>>)
WellFormed == {BodyItemsAB, BodyItemsNone, BodyDetail}
Decoded(body) ==
    CASE body = BodyItemsAB -> ItemsAB
      [] body = BodyItemsNone -> ItemsNone
      [] body = BodyDetail -> Detail
      [] OTHER -> Unbound

\* The arguments of render() when the fallback payload is rendered.
FallbackRendered == [template |-> "home.html", context |-> [k \in {"data"} |-> ItemsNone]]
OneErrorRecord(w) == Len(logs[w]) = 1 /\ logs[w][1].level = "ERROR"
FellBack(w) == pc[w] = "done" /\ rendered[w] = FallbackRendered /\ OneErrorRecord(w)

\* C1: no invocation ends with an exception leaving home_view: whatever the
\* upstream did, a finished invocation has rendered a response.
C1_NoFaultPropagates ==
    \A w \in Workers : pc[w] # "raised" /\ (Finished(w) => rendered[w] # NotRendered)

\* C2: a 2xx response whose body is no valid JSON ends as a connection error
\* does: the fallback payload is rendered and one error record is logged.
C2_MalformedBodyFallsBack ==
    \A w \in Workers :
        (Finished(w) /\ Answered(w) /\ Is2xx(served[w].status)
            /\ served[w].body \notin WellFormed)
        => FellBack(w)

C4_PassThrough ==
    \A w \in Workers :
        (Answered(w) /\ Is2xx(served[w].status) /\ served[w].body \in WellFormed)
        => /\ pc[w] # "raised"
           /\ pc[w] \in {"render", "done"} => data[w] = Decoded(served[w].body)
           /\ pc[w] = "done" =>
                rendered[w] = [template |-> "home.html",
                               context |-> [k \in {"data"} |-> Decoded(served[w].body)]]

C4_Witness ==
    \E w \in Workers :
        /\ pc[w] = "done" /\ served[w] = Answer(1, 200, BodyItemsAB)
        /\ rendered[w].context["data"] = ItemsAB

\* C5: every invocation computes its URL from the environment as it is when
\* the invocation starts; the GET goes to that URL.
UrlFor(e) ==
    IF e = EnvUnset THEN "http://service-a:8000/api/data/"
    ELSE IF e = EnvWith("alt-host") THEN "http://alt-host:8000/api/data/"
    ELSE "http://" \o e["SERVICE_A_HOST"] \o ":8000/api/data/"

C5_UrlFromCurrentEnv ==
    [][\A w \in Workers :
          /\ (pc[w] = "idle" /\ pc'[w] # "idle") => url'[w] = UrlFor(env)
          /\ (pc[w] = "get" /\ pc'[w] # "get") =>
                /\ url'[w] = url[w]
                /\ calls'[w][Len(calls'[w])].url = url[w]]_vars

C5_Witness ==
    \E w, v \in Workers :
        /\ env = EnvWith("alt-host")
        /\ pc[w] = "done" /\ url[w] = "http://service-a:8000/api/data/"
        /\ calls[w][1].url = "http://service-a:8000/api/data/"
        /\ pc[v] = "raise_for_status" /\ url[v] = "http://alt-host:8000/api/data/"
        /\ calls[v][1].url = "http://alt-host:8000/api/data/"

\* C6: an invocation issues exactly one GET, to its URL and with the timeout
\* of 5 seconds, whatever the outcome: none before the fetch step, one from
\* then on, and never a second one.
C6_OneCallPerInvocation ==
    \A w \in Workers :
        IF pc[w] \in {"idle", "get"}
        THEN calls[w] = <<>>
        ELSE calls[w] = <<[method |-> "GET", url |-> UrlFor(envSeen[w]), timeout |-> 5]>>

C6_Witness ==
    \E w, v \in Workers :
        /\ pc[w] = "done" /\ TimedOut(w) /\ Len(calls[w]) = 1
        /\ pc[v] = "done" /\ served[v] = Answer(1, 200, BodyTruncated) /\ Len(calls[v]) = 1

\* C7: an error record is logged exactly when the invocation took the
\* fallback path; a fetch, validation and parse that all succeed log nothing,
\* and no invocation logs more than one record.
C7_LogIffFallback ==
    \A w \in Workers :
        /\ Len(logs[w]) <= 1
        /\ \A i \in 1..Len(logs[w]) : logs[w][i].level = "ERROR"
        /\ Finished(w) =>
             /\ Len(logs[w]) = 1 <=> \E i \in 1..Len(trace[w]) : trace[w][i] = "except"
             /\ (Answered(w) /\ ~Is4xx5xx(served[w].status)
                    /\ served[w].body \in WellFormed) => logs[w] = <<>>
             /\ (ConnectionFailed(w) \/ TimedOut(w)) => Len(logs[w]) = 1

C7_Witness ==
    \E w, v \in Workers :
        /\ pc[w] = "done" /\ served[w] = Answer(1, 200, BodyItemsNone) /\ logs[w] = <<>>
        /\ pc[v] = "done" /\ ConnectionFailed(v) /\ Len(logs[v]) = 1
        /\ data[w] = data[v]

\* C8: two invocations in succession that read the same environment and meet
\* the same upstream behaviour end the same way, with the same `data` and
\* the same number of log records.
C8_SameInputsSameOutcome ==
    (Finished(1) /\ prev # NoPrev /\ prev.env = envSeen[1] /\ prev.served = served[1])
    => /\ prev.pc = pc[1]
       /\ prev.data = data[1]
       /\ prev.nlogs = Len(logs[1])

C8_Witness ==
    /\ pc[1] = "done" /\ prev.pc = "done"
    /\ prev.env = envSeen[1] /\ prev.served = served[1]
    /\ ConnectionFailed(1) /\ data[1] = ItemsNone /\ prev.nlogs = 1

\* C9: under every interleaving, a step of one invocation leaves the locals,
\* the log records and the rendered payload of every other invocation as they
\* were, and what an invocation renders is determined by its own response.
OwnPayload(w) ==
    IF Answered(w) /\ ~Is4xx5xx(served[w].status) /\ served[w].body \in WellFormed
    THEN Decoded(served[w].body)
    ELSE ItemsNone

C9_Isolation ==
    [][\A w \in Workers :
          /\ pc'[w] = pc[w] =>
                /\ data'[w] = data[w] /\ rendered'[w] = rendered[w]
                /\ logs'[w] = logs[w] /\ url'[w] = url[w]
                /\ response'[w] = response[w] /\ exc'[w] = exc[w]
          /\ pc'[w] = "done" => rendered'[w].context["data"] = OwnPayload(w)']_vars

C9_Witness ==
    \E w, v \in Workers :
        /\ pc[w] = "done" /\ ConnectionFailed(w) /\ rendered[w].context["data"] = ItemsNone
        /\ pc[v] = "done" /\ served[v] = Answer(1, 200, BodyItemsAB)
        /\ rendered[v].context["data"] = ItemsAB

\* C10: the steps of an invocation.
Rank(step) ==
    CASE step = "resolve" -> 1
      [] step = "get" -> 2
      [] step = "raise_for_status" -> 3
      [] step = "json" -> 4
      [] step = "except" -> 5
      [] step = "render" -> 6

Took(w, step) == \E i \in 1..Len(trace[w]) : trace[w][i] = step

InOrder(w) ==
    /\ \A i \in 1..Len(trace[w]) - 1 : Rank(trace[w][i]) < Rank(trace[w][i + 1])
    /\ pc[w] # "idle" => trace[w][1] = "resolve" /\ url[w] # ""
    /\ Took(w, "raise_for_status") => Took(w, "get") /\ response[w] # NoResponse
    /\ Took(w, "json") => Took(w, "raise_for_status")

RenderedLast(w) ==
    /\ Took(w, "render") <=> pc[w] = "done"
    /\ Took(w, "render") <=> rendered[w] # NotRendered
    /\ pc[w] = "done" =>
         /\ trace[w][Len(trace[w])] = "render"
         /\ rendered[w].template = "home.html"
         /\ DOMAIN rendered[w].context = {"data"}
         /\ rendered[w].context["data"] = data[w]

====
